---- MODULE Spec2Model ----
(***************************************************************************)
(* The self-correcting query-synthesis orchestrator of mediqueryAI, in its *)
(* two topologies:                                                         *)
(*   - single-role : LLMAgent.generate_sql_with_retry (llm_agent.py)       *)
(*   - multi-role  : MultiAgentSQLGenerator graph + ainvoke                *)
(*                   (langgraph_agent.py)                                  *)
(* The text generation providers, the validator's data store and the wall  *)
(* clock are the environment: every call draws its outcome and its latency *)
(* from a small set.                                                       *)
(***************************************************************************)
EXTENDS Integers, Sequences, FiniteSets, TLC

(* ------------------------------ bounds --------------------------------- *)
MaxAttempts == 3          \* largest configured max-attempts explored
MaxWriterFailures == 1    \* exceptions the writer model may raise in one invocation
MaxTail == 3              \* characters following the statement body of a candidate
MaxTerminators == 2
MaxThreads == 2       \* threads created in one run of the chat history store
MaxMessages == 2      \* messages added in one run of the chat history store
MaxClock == 1         \* clock readings that differ       \* statement terminators added to a candidate

\* distinct candidate texts a generator may return: one per attempt at most
NumCandidates == MaxAttempts

(* -------------------------- program constants -------------------------- *)
RowUpperBound == 10000    \* "too many rows" threshold
RecursionLimit == 25      \* supersteps the compiled graph may take
SingleTimeout == 60       \* timeout_seconds passed to generate_sql_with_retry
MultiTimeout == 120       \* default_config["timeout_seconds"]

(* ------------------------------ values --------------------------------- *)
None == <<"None">>
\* a candidate text: the table it selects from, and the rest of the statement
Cand(i) == <<"patients", i>>
\* the first statement over the table name variant "patient", which no table has
Misnamed == <<"patient", 1>>
Candidates == {Cand(i) : i \in 1..NumCandidates} \cup {Misnamed}
NO_MATCH == <<"NO_MATCH">>
RATE_LIMIT == <<"RATE_LIMIT">>
INVALID_KEY == <<"INVALID_KEY">>
API_ERROR == <<"API_ERROR">>
ProviderErrors == {RATE_LIMIT, INVALID_KEY, API_ERROR}

\* The candidate texts a generator call may return after the candidates in seen:
\* a statement returned before or the next statement not returned yet (statements
\* matter only up to equality, so one new statement stands for all of them). The
\* misnamed text is returned as the first text of an invocation, or again later.
SeenCandidates(seen) == {c \in Candidates : \E i \in 1..Len(seen) : seen[i] = c}
NextCandidates(seen) ==
    {c \in Candidates :
        /\ c[2] <= Cardinality({x[2] : x \in SeenCandidates(seen)}) + 1
        /\ c = Misnamed => (seen = <<>> \/ Misnamed \in SeenCandidates(seen))}

NoRowCount == 0 - 1       \* row_count: None
RowCounts == {0, RowUpperBound, RowUpperBound + 1}
\* the data store's error for a malformed candidate is fixed by the candidate
DbErrorTexts == <<"near FROM: syntax error", "no such column: agee",
                  "no such table: visit">>
NoSuchTablePatient == "no such table: patient"
DbErrorOf(c) == DbErrorTexts[((c[2] - 1) % Len(DbErrorTexts)) + 1]

MaxLatency == MultiTimeout + 1
\* a call returns at once or takes longer than every budget
Latency == {0, MaxLatency}
ClockCap == MaxLatency
Min(a, b) == IF a < b THEN a ELSE b
\* the wall clock after a call of latency d; it saturates above every timeout
Advance(t, d) == Min(t + d, ClockCap)

(* ------------------- the Syntactic Validator (database.py) ------------- *)
\* what the data store answers to the dry run of one candidate
DbOutcomes(c) ==
    IF c[1] = "patient"
    THEN {[raised |-> TRUE, n |-> 0, err |-> NoSuchTablePatient]}
    ELSE {[raised |-> FALSE, n |-> rc, err |-> "None"] : rc \in RowCounts}
         \cup {[raised |-> TRUE, n |-> 0, err |-> DbErrorOf(c)]}

ZeroRowsWarning == "Query returns 0 rows - may indicate incorrect filters or empty tables"
TooManyRowsWarning == "Query returns N rows - unusually high, may need additional filters"

\* variant: the too-many-rows warning already at the upper bound
validate_sql_WarnsAtBound(o) ==
    IF o.raised
    THEN [valid |-> FALSE, error |-> o.err, row_count |-> NoRowCount,
          warnings |-> <<>>]
    ELSE [valid |-> TRUE, error |-> "None", row_count |-> o.n,
          warnings |-> IF o.n = 0 THEN <<ZeroRowsWarning>>
                       ELSE IF o.n >= RowUpperBound THEN <<TooManyRowsWarning>>
                       ELSE <<>>]
\* DatabaseService.validate_sql, given the data store's answer o
validate_sql(o) ==
    IF o.raised
    THEN [valid |-> FALSE, error |-> o.err, row_count |-> NoRowCount,
          warnings |-> <<>>]
    ELSE [valid |-> TRUE, error |-> "None", row_count |-> o.n,
          warnings |-> IF o.n = 0 THEN <<ZeroRowsWarning>>
                       ELSE IF o.n > RowUpperBound THEN <<TooManyRowsWarning>>
                       ELSE <<>>]

NoValidation == [valid |-> FALSE, error |-> "null", row_count |-> NoRowCount,
                 warnings |-> <<>>]

(* ------------------------------- state --------------------------------- *)
VARIABLES
    requested,        \* request.multi_agent on arrival: "single" | "multi"
    topology,         \* "single" | "multi": which orchestrator serves the request
    max_attempts,     \* max_retries / config["max_attempts"]
    timeout_seconds,  \* configured budget
    user_query,       \* the request text
    fast_mode,        \* single-role: skip plan construction
    sql_writer_llm,   \* multi-role: the writer model is configured
    critic_llm,       \* multi-role: the critic model is configured
    now,              \* time.time() - start_time, saturating at ClockCap
    \* ---- single-role: locals of generate_sql_with_retry
    pc,               \* position in generate_sql_with_retry
    attempt_num,      \* loop variable of "for attempt_num in range(max_retries)"
    sql,              \* candidate of the current attempt
    error_msg,        \* error_msg local
    attempts,         \* attempts list (the candidate of each entry)
    validation,       \* validation local
    reflections,      \* reflections list
    query_plan,       \* query_plan local
    history,          \* history: the prior-conversation list, as the loop sees it
    ret,              \* the dict returned to the caller (NoResult before the return)
    last_thoughts,    \* llm_agent.last_thoughts, the trace the caller reads
    appended,         \* every entry appended to the trace so far (history)
    \* ---- multi-role: the graph
    state,            \* AgentState
    node,             \* node the graph runs next
    steps,            \* supersteps taken by the compiled graph
    route,            \* last value returned by _should_continue
    out,              \* the dict returned by ainvoke (NoOut before the return)
    \* ---- observation of the environment (history, read by no action)
    gen_calls,        \* number of Candidate Generator calls started
    first_gen,        \* kind of outcome of the first Candidate Generator call
    all_gen_slow,     \* every generator call so far took longer than the budget
    validated_sql,    \* the candidate the validator was last called on
    all_zero_rows,    \* every validator call so far answered valid with 0 rows
    critic_call,      \* the latest call of the critic model: candidate, validator's answer
    writer_failures,  \* exceptions raised so far by the writer model
    gen_context,      \* the context given to the latest Candidate Generator call
    gen_late,         \* a generator call was started after the budget had elapsed
    plan_calls,       \* number of Plan Composer calls started
    \* ---- the module singletons, as concurrent requests see them
    agent,            \* llm_agent: its model and last_thoughts fields
    reqs,             \* the query_data coroutines being served
    cursor,           \* db_service.cursor: the rows still to be fetched
    calls,            \* the validate_sql calls in progress
    \* ---- functions of the program applied to an input
    arg,              \* the input
    res,              \* the value computed from it (NoRes before the call)
    \* ---- the chat history data store (chat_history.db)
    threads,          \* the rows of table threads
    messages,         \* table messages: the number of rows of each thread_id
    clock,            \* time.time()
    created,          \* number of thread ids drawn so far
    posted,           \* number of messages added so far
    last_op           \* the latest ChatHistoryService call, with the rows it removed

env == <<requested, topology, max_attempts, timeout_seconds, user_query, fast_mode,
         sql_writer_llm, critic_llm>>
single == <<pc, attempt_num, sql, error_msg, attempts, validation, reflections,
           query_plan, history, ret, last_thoughts, appended>>
multi == <<state, node, steps, route, out>>
gen_hist == <<gen_calls, first_gen, all_gen_slow, writer_failures, gen_context,
              gen_late, plan_calls>>
val_hist == <<validated_sql, all_zero_rows, critic_call>>
hist == <<gen_hist, val_hist>>
request == <<env, now, single, multi, hist>>
applied == <<arg, res>>
store == <<threads, messages, clock, created, posted, last_op>>
shared == <<agent, reqs, cursor, calls, applied, store>>
vars == <<request, shared>>

\* variant: the elapsed-time check never fires
TimedOut_Never(t, limit) == FALSE
\* "time.time() - start_time > timeout_seconds"
TimedOut(t, limit) == t > limit

\* the kind of a generator outcome
GenClass(o) == IF Len(o) = 2
               THEN (IF o[1] = "patient" THEN "misnamed_candidate" ELSE "candidate")
               ELSE IF o[1] \in {"RATE_LIMIT", "INVALID_KEY", "API_ERROR"}
               THEN "provider_error"
               ELSE o[1]

\* bookkeeping of one Candidate Generator call of latency d with outcome o
GenObserved(o, d) ==
    /\ gen_calls' = gen_calls + 1
    /\ first_gen' = IF gen_calls = 0 THEN GenClass(o) ELSE first_gen
    /\ all_gen_slow' = (all_gen_slow /\ d > timeout_seconds)
    /\ writer_failures' = writer_failures
    /\ gen_late' = (gen_late \/ now > timeout_seconds)
    /\ plan_calls' = plan_calls

\* bookkeeping of one Syntactic Validator call on candidate c answering v
ValObserved(c, v) ==
    /\ validated_sql' = c
    /\ all_zero_rows' = (all_zero_rows /\ v.valid /\ v.row_count = 0)

(* =================== single-role: generate_sql_with_retry ============== *)
\* one entry of the trace: what it reports and the attempt it belongs to
Entry(kind, n) == [kind |-> kind, n |-> n]
\* "self.last_thoughts.append(...)" for each of the entries
Say(entries) ==
    /\ last_thoughts' = last_thoughts \o entries
    /\ appended' = appended \o entries
\* generate_sql: "self.last_thoughts = []", then its own entries
ResetAndSay(entries) ==
    /\ last_thoughts' = entries
    /\ appended' = appended \o entries

PlanOutcomes == {"Step 1: ...", "Unable to generate query plan"}

\* recent_history: get_recent_messages() after the question was saved
PriorMessage == [role |-> "user", text |-> <<"the question">>]
RecentHistory == <<PriorMessage>>
\* the plan message of enhanced_history
PlanMessage(plan) == [role |-> "system", text |-> <<"Query Plan:", plan>>]
\* the history argument of generate_sql: with the plan appended when there is one
PassedHistory(h, plan, fast) ==
    IF plan # "None" /\ ~fast THEN Append(h, PlanMessage(plan)) ELSE h
\* generate_sql: "relevant_history = history[-5:]"
relevant_history(h) == IF Len(h) <= 5 THEN h ELSE SubSeq(h, Len(h) - 4, Len(h))

\* what LLMAgent.generate_sql returns: a candidate, a sentinel, or None
GenOutcomes(seen) == NextCandidates(seen) \cup {NO_MATCH} \cup ProviderErrors \cup {None}

\* "not sql or sql in [NO_MATCH, RATE_LIMIT, INVALID_KEY] or sql.startswith(API_ERROR)"
IsTerminalSentinel(s) == s = None \/ s \in ({NO_MATCH} \cup ProviderErrors)

NoError == [kind |-> "None", arg |-> None, last |-> "None"]
NoResult == [sql |-> None, success |-> FALSE, attempts |-> 0, reflections |-> <<>>,
             query_plan |-> "None", error |-> NoError]
\* variant: every result carries the latest candidate
Result_KeepsCandidate(s, ok, n, err) ==
    [sql |-> sql, success |-> ok, attempts |-> n, reflections |-> reflections,
     query_plan |-> query_plan, error |-> err]
\* variant: the result reports the loop index instead of the attempt number
Result_CountsFromZero(s, ok, n, err) ==
    [sql |-> s, success |-> ok, attempts |-> n - 1, reflections |-> reflections,
     query_plan |-> query_plan, error |-> err]
Result(s, ok, n, err) ==
    [sql |-> s, success |-> ok, attempts |-> n, reflections |-> reflections,
     query_plan |-> query_plan, error |-> err]

ZeroRowsIssue == "Query returns 0 rows - may need different filters or table"
TooManyRowsIssue == "Query returns N rows - may need additional filters"
OtherIssue == "Query validation concern"

\* variant: an empty result counts as a reasonable row count
ReasonableRowCount_AcceptsZero(n) == n >= 0 /\ n <= RowUpperBound

\* "Success criteria: valid SQL with reasonable row count"
ReasonableRowCount(n) == n > 0 /\ n <= RowUpperBound

\* the issue text of a valid candidate whose row count is not reasonable
IssueOf(n) == IF n = 0 THEN ZeroRowsIssue
              ELSE IF n > RowUpperBound THEN TooManyRowsIssue
              ELSE OtherIssue

\* variant: plan construction is never skipped
SkipsPlanning_Never(fast) == FALSE
\* "if not fast_mode:" guarding Stage 2
SkipsPlanning(fast) == fast

\* Stage 2: plan construction, skipped in fast mode
SPlan ==
    /\ topology = "single" /\ pc = "plan"
    /\ IF SkipsPlanning(fast_mode)
       THEN /\ query_plan' = "None"
            /\ now' = now
            /\ plan_calls' = plan_calls
            /\ Say(<<Entry("Fast mode enabled", 0)>>)
       ELSE \E p \in PlanOutcomes, d \in Latency :
            /\ query_plan' = p
            /\ now' = Advance(now, d)
            /\ plan_calls' = plan_calls + 1
            /\ Say(IF p = "Unable to generate query plan"
                   THEN <<Entry("Generating query plan", 0)>>
                   ELSE <<Entry("Generating query plan", 0), Entry("Query Plan", 0)>>)
    /\ pc' = "loop"
    /\ UNCHANGED <<shared, env, attempt_num, sql, error_msg, attempts, validation,
                   reflections, history, ret, multi, val_hist, gen_calls, first_gen,
                   all_gen_slow, writer_failures, gen_context, gen_late>>

\* the head of the for loop: leave it when exhausted, else check the timeout
SLoopHead ==
    /\ topology = "single" /\ pc = "loop"
    /\ IF attempt_num >= max_attempts
       THEN \* "All attempts failed"
            /\ ret' = Result(None, FALSE, max_attempts,
                             [kind |-> "Failed after attempts", arg |-> None,
                              last |-> error_msg])
            /\ pc' = "done"
            /\ Say(<<Entry("Failed after attempts", max_attempts)>>)
       ELSE IF TimedOut(now, timeout_seconds)
       THEN /\ ret' = Result(None, FALSE, attempt_num + 1,
                             [kind |-> "timeout", arg |-> None, last |-> "None"])
            /\ pc' = "done"
            /\ Say(<<Entry("timeout", attempt_num + 1)>>)
       ELSE /\ ret' = ret
            /\ pc' = "generate"
            /\ Say(<<Entry("Attempt", attempt_num + 1)>>)
    /\ UNCHANGED <<shared, env, now, attempt_num, sql, error_msg, attempts, validation,
                   reflections, query_plan, history, multi, hist>>

\* generate_sql and the check of its sentinels
SGenerate ==
    /\ topology = "single" /\ pc = "generate"
    /\ \E o \in GenOutcomes(attempts), d \in Latency :
        /\ now' = Advance(now, d)
        /\ GenObserved(o, d)
        /\ gen_context' = relevant_history(PassedHistory(history, query_plan, fast_mode))
        /\ sql' = o
        /\ ResetAndSay(IF o \in Candidates \cup {NO_MATCH}
                       THEN <<Entry("Analyzing user request", attempt_num + 1),
                              Entry("Generated SQL", attempt_num + 1)>>
                       ELSE <<Entry("Analyzing user request", attempt_num + 1)>>)
        /\ IF IsTerminalSentinel(o)
           THEN /\ attempts' = Append(attempts, o)
                /\ ret' = Result(None, FALSE, attempt_num + 1,
                                 [kind |-> "SQL generation failed", arg |-> o,
                                  last |-> "None"])
                /\ pc' = "done"
           ELSE /\ attempts' = attempts
                /\ ret' = ret
                /\ pc' = "validate"
    /\ UNCHANGED <<shared, env, attempt_num, error_msg, validation, reflections, query_plan,
                   history, multi, val_hist>>

\* validate_sql and the decision taken on its result
SValidate ==
    /\ topology = "single" /\ pc = "validate"
    /\ \E o \in DbOutcomes(sql), d \in Latency :
       LET v == validate_sql(o) IN
        /\ now' = Advance(now, d)
        /\ attempts' = Append(attempts, sql)
        /\ validation' = v
        /\ ValObserved(sql, v)
        /\ critic_call' = critic_call
        /\ IF v.valid /\ ReasonableRowCount(v.row_count)
           THEN /\ ret' = Result(sql, TRUE, attempt_num + 1, NoError)
                /\ pc' = "done"
                /\ Say(IF v.warnings = <<>>
                       THEN <<Entry("Query validated successfully", attempt_num + 1)>>
                       ELSE <<Entry("Query validated successfully", attempt_num + 1),
                              Entry("Warnings", attempt_num + 1)>>)
                /\ UNCHANGED <<error_msg, attempt_num>>
           ELSE IF v.valid /\ attempt_num = max_attempts - 1
           THEN \* "Final attempt - accepting query despite warnings"
                /\ ret' = Result(sql, TRUE, attempt_num + 1, NoError)
                /\ pc' = "done"
                /\ Say(<<Entry("issue", attempt_num + 1),
                         Entry("Final attempt", attempt_num + 1)>>)
                /\ UNCHANGED <<error_msg, attempt_num>>
           ELSE /\ error_msg' = IF v.valid THEN IssueOf(v.row_count) ELSE v.error
                /\ ret' = ret
                /\ Say(IF v.valid THEN <<Entry("issue", attempt_num + 1)>>
                       ELSE <<Entry("Validation failed", attempt_num + 1)>>)
                /\ IF attempt_num < max_attempts - 1
                   THEN pc' = "reflect" /\ attempt_num' = attempt_num
                   ELSE pc' = "loop" /\ attempt_num' = attempt_num + 1
    /\ UNCHANGED <<shared, env, sql, reflections, query_plan, history, multi, gen_hist>>

ReflectOutcomes == {"llm", "fallback"}
\* LLMAgent.reflect_on_error: the model's text, or the fallback on failure
reflect_on_error(r, msg) ==
    IF r = "llm" THEN <<"analysis of the error message", msg>>
    ELSE <<"Error analysis unavailable. Original error:", msg>>

\* the message appended to history after a reflection
ReflectionMessage(msg, reflection) ==
    [role |-> "system",
     text |-> <<"Previous attempt failed:", msg, "Reflection:", reflection>>]

\* "Reflect on the error and try again"
SReflect ==
    /\ topology = "single" /\ pc = "reflect"
    /\ \E r \in ReflectOutcomes, d \in Latency :
        /\ now' = Advance(now, d)
        /\ reflections' = Append(reflections, reflect_on_error(r, error_msg))
        /\ history' = Append(history,
                              ReflectionMessage(error_msg, reflect_on_error(r, error_msg)))
        /\ Say(<<Entry("Reflecting on error", attempt_num + 1),
                 Entry("Reflection", attempt_num + 1)>>)
    /\ attempt_num' = attempt_num + 1
    /\ pc' = "loop"
    /\ UNCHANGED <<shared, env, sql, error_msg, attempts, validation, query_plan, ret, multi,
                   hist>>

(* ============ multi-role: the graph of MultiAgentSQLGenerator ========== *)
EmptySql == <<"">>        \* a generator output that cleans to the empty string
Tables == {"patients"}

\* Python truthiness of state["generated_sql"]
Truthy(s) == s # None /\ s # EmptySql

\* request texts, as sequences of characters
Queries ==
    { <<"C", "o", "u", "n", "t", " ", "a", "l", "l">>,
      <<"L", "i", "s", "t", " ", "a", "l", "l">> }
\* str.lower() on the letters the request texts use
Lower(ch) == IF ch = "C" THEN "c" ELSE IF ch = "L" THEN "l" ELSE ch
lower(q) == [i \in 1..Len(q) |-> Lower(q[i])]
\* Python's "kw in text": kw is a contiguous substring of text
Contains(text, kw) ==
    \E i \in 1..(Len(text) - Len(kw) + 1) :
        \A j \in 1..Len(kw) : text[i + j - 1] = kw[j]
AggregateKeywords ==
    { <<"c", "o", "u", "n", "t">>,
      <<"h", "o", "w", " ", "m", "a", "n", "y">>,
      <<"t", "o", "t", "a", "l">>,
      <<"s", "u", "m">>,
      <<"a", "v", "e", "r", "a", "g", "e">>,
      <<"a", "v", "g">> }
\* any(kw in query_lower for kw in [...])
HasAggregateKeyword(q) == \E kw \in AggregateKeywords : Contains(lower(q), kw)

\* the initial_state built by ainvoke
InitialState(q, maxa, limit) ==
    [original_query |-> q, query_plan |-> "None",
     selected_tables |-> {}, table_schemas |-> {},
     generated_sql |-> None, validation_result |-> NoValidation,
     reflections |-> <<>>, attempt_count |-> 0,
     max_attempts |-> maxa, timeout_seconds |-> limit,
     previous_sqls |-> <<>>, thoughts |-> <<>>]

\* "state["thoughts"].append(...)" for each of the entries
Think(s, entries) == [s EXCEPT !.thoughts = @ \o entries]
SkipEntry == Entry("Timeout reached, skipping", 0)

HasValidation(s) == s.validation_result # NoValidation

\* previous_sqls[:-1]
AllButLast(q) == IF Len(q) = 0 THEN <<>> ELSE SubSeq(q, 1, Len(q) - 1)
Range(q) == {q[i] : i \in 1..Len(q)}

\* "generated_sql in previous_sqls[:-1]"
IsDuplicate(s) ==
    Truthy(s.generated_sql) /\ s.generated_sql \in Range(AllButLast(s.previous_sqls))

\* step 5 of _should_continue: the decision on a validation result
AcceptsValidation(v, q) ==
    /\ v.valid
    /\ \/ (v.row_count = 0 /\ HasAggregateKeyword(q))
       \/ v.row_count >= 0

\* variant: the attempt ceiling is compared with > instead of >=
should_continue_OffByOne(s, t) ==
    IF TimedOut(t, s.timeout_seconds) THEN "timeout"
    ELSE IF s.attempt_count > s.max_attempts THEN "max_attempts"
    ELSE IF IsDuplicate(s) THEN "max_attempts"
    ELSE IF ~HasValidation(s) THEN "retry"
    ELSE IF AcceptsValidation(s.validation_result, s.original_query) THEN "success"
    ELSE "retry"

\* _should_continue, evaluated at elapsed time t
should_continue(s, t) ==
    IF TimedOut(t, s.timeout_seconds) THEN "timeout"
    ELSE IF s.attempt_count >= s.max_attempts THEN "max_attempts"
    ELSE IF IsDuplicate(s) THEN "max_attempts"
    ELSE IF ~HasValidation(s) THEN "retry"
    ELSE IF AcceptsValidation(s.validation_result, s.original_query) THEN "success"
    ELSE "retry"

\* the entry _should_continue appends on the way to its answer
continue_thoughts(s, t) ==
    IF TimedOut(t, s.timeout_seconds) THEN <<Entry("Timeout", 0)>>
    ELSE IF s.attempt_count >= s.max_attempts
    THEN <<Entry("Max attempts reached", s.attempt_count)>>
    ELSE IF IsDuplicate(s) THEN <<Entry("Same SQL generated twice", 0)>>
    ELSE IF should_continue(s, t) = "success" THEN <<Entry("Success", 0)>>
    ELSE <<>>

\* the graph runs a node only while supersteps remain
CanStep == steps < RecursionLimit

\* _schema_navigator_node
NavigatorOutcomes ==
    {[raised |-> FALSE, schemas |-> Tables], [raised |-> TRUE, schemas |-> {}]}

SchemaNavigator ==
    /\ topology = "multi" /\ node = "schema_navigator" /\ CanStep
    /\ IF TimedOut(now, state.timeout_seconds)
       THEN /\ state' = Think(state, <<SkipEntry>>)
            /\ now' = now
       ELSE \E o \in NavigatorOutcomes, d \in Latency :
            /\ now' = Advance(now, d)
            /\ state' = IF o.raised
                        THEN Think([state EXCEPT !.selected_tables = {},
                                                 !.table_schemas = {}],
                                   <<Entry("Schema Navigator: Analyzing query", 0),
                                     Entry("Schema Navigator error", 0)>>)
                        ELSE Think([state EXCEPT !.selected_tables = Tables,
                                                 !.table_schemas = o.schemas],
                                   <<Entry("Schema Navigator: Analyzing query", 0),
                                     Entry("Schema Navigator: Using all tables", 0),
                                     Entry("Schema Navigator: Table schemas prepared", 0)>>)
    /\ node' = "sql_writer"
    /\ steps' = steps + 1
    /\ UNCHANGED <<shared, env, single, route, out, hist>>

\* table_corrections: the name variants the writer rewrites
TableCorrections ==
    [v \in {"patient", "visit", "bill", "patient_visit", "patient_data", "labs",
            "result", "sales"} |->
        IF v \in {"patient", "patient_data"} THEN "patients"
        ELSE IF v \in {"visit", "patient_visit"} THEN "visits"
        ELSE IF v \in {"bill", "sales"} THEN "billing"
        ELSE "lab_results"]
\* variant: the replacement is made without looking at the selected schemas
correct_tables_AnyReplacement(c, valid_tables) ==
    IF c[1] \in DOMAIN TableCorrections THEN <<TableCorrections[c[1]], c[2]>> ELSE c
\* the writer's auto-correction: a variant is replaced when the replacement is a
\* table of the selected schemas
correct_tables(c, valid_tables) ==
    IF c[1] \in DOMAIN TableCorrections /\ TableCorrections[c[1]] \in valid_tables
    THEN <<TableCorrections[c[1]], c[2]>>
    ELSE c

\* the table names the writer's defensive check reports
HallucinatedNames == {"patient", "visit", "bill", "patient_visit", "patient_data",
                      "labs", "results"}
\* the entries _sql_writer_node appends for model output o
writer_thoughts(o, valid_tables, attempt) ==
    <<Entry("SQL Writer: Generating SQL", attempt)>>
    \o (IF o \in ProviderErrors THEN <<Entry("SQL Writer error", attempt)>>
        ELSE (IF correct_tables(o, valid_tables) # o
              THEN <<Entry("SQL Writer: Auto-corrected table names", attempt)>>
              ELSE <<>>)
             \o <<Entry("SQL Writer: Generated SQL", attempt)>>
             \o (IF correct_tables(o, valid_tables)[1] \in HallucinatedNames
                 THEN <<Entry("SQL Writer WARNING", attempt)>>
                 ELSE <<>>))

\* variant: a candidate already in the list is not recorded again
track_sql_OnlyNew(previous, c) ==
    IF c \in Range(previous) THEN previous ELSE Append(previous, c)
\* variant: only the latest candidate is kept for the duplicate check
track_sql_LatestOnly(previous, c) == <<c>>
\* "Track SQL for deduplication": state["previous_sqls"].append(sql)
track_sql(previous, c) == Append(previous, c)

\* what the writer model call yields: a cleaned candidate, or an exception
WriterOutcomes(seen) == NextCandidates(seen) \cup ProviderErrors

\* _sql_writer_node
SqlWriter ==
    /\ topology = "multi" /\ node = "sql_writer" /\ CanStep
    /\ IF TimedOut(now, state.timeout_seconds)
       THEN /\ state' = Think(state, <<SkipEntry>>)
            /\ UNCHANGED <<now, hist>>
       ELSE IF ~sql_writer_llm
       THEN /\ state' = Think([state EXCEPT !.generated_sql = None],
                              <<Entry("SQL Writer: Generating SQL",
                                      state.attempt_count + 1)>>)
            /\ UNCHANGED <<now, hist>>
       ELSE \E o \in WriterOutcomes(state.previous_sqls), d \in Latency :
            /\ now' = Advance(now, d)
            /\ o \in ProviderErrors => writer_failures < MaxWriterFailures
            /\ gen_calls' = gen_calls + 1
            /\ first_gen' = IF gen_calls = 0 THEN GenClass(o) ELSE first_gen
            /\ all_gen_slow' = (all_gen_slow /\ d > timeout_seconds)
            /\ writer_failures' = writer_failures + (IF o \in ProviderErrors THEN 1 ELSE 0)
            /\ gen_context' = state.reflections
            /\ gen_late' = (gen_late \/ now > timeout_seconds)
            /\ plan_calls' = plan_calls
            /\ UNCHANGED val_hist
            /\ state' = Think(IF o \in ProviderErrors
                              THEN [state EXCEPT !.generated_sql = None]
                              ELSE [state EXCEPT
                                      !.generated_sql =
                                          correct_tables(o, state.table_schemas),
                                      !.previous_sqls =
                                          track_sql(@, correct_tables(o, state.table_schemas))],
                              writer_thoughts(o, state.table_schemas,
                                              state.attempt_count + 1))
    /\ node' = "critic"
    /\ steps' = steps + 1
    /\ UNCHANGED <<shared, env, single, route, out>>

\* what the critic model call yields
CriticResponses == {"no_issues", "has_issues", "unparseable", "call_failed",
                    "not_an_object", "no_critique_field"}

\* _get_semantic_critique: the parsed response, or the optimistic default
get_semantic_critique(r) ==
    IF r \in {"unparseable", "call_failed", "no_issues"}
    THEN [object |-> TRUE, has_issues |-> FALSE, critique |-> TRUE]
    ELSE IF r = "has_issues"
    THEN [object |-> TRUE, has_issues |-> TRUE, critique |-> TRUE]
    ELSE IF r = "no_critique_field"
    THEN [object |-> TRUE, has_issues |-> TRUE, critique |-> FALSE]
    ELSE [object |-> FALSE, has_issues |-> FALSE, critique |-> FALSE]

NoSqlGenerated == [valid |-> FALSE, error |-> "No SQL generated", row_count |-> 0,
                   warnings |-> <<>>]
ValidationError == [valid |-> FALSE, error |-> "Validation error", row_count |-> 0,
                    warnings |-> <<>>]
SemanticWarning == "semantic critique"

\* no call of the critic model yet
NoCriticCall == [called |-> FALSE, sql |-> None, valid |-> FALSE]
\* _get_semantic_critique is called with candidate c after the validator answered v
CriticCall(c, v) == [called |-> TRUE, sql |-> c, valid |-> v.valid]
\* variant: the critic model is consulted whatever the validator answered
CallsCritic_OnAnyResult(v, hasCritic) == hasCritic
\* "if validation["valid"] and self.critic_llm"
CallsCritic(v, hasCritic) == v.valid /\ hasCritic

\* the try block of _critic_node: the validation result it stores
critic_validation(v, hasCritic, r) ==
    IF CallsCritic(v, hasCritic)
    THEN LET c == get_semantic_critique(r) IN
         IF ~c.object THEN ValidationError
         ELSE IF c.has_issues
         THEN IF c.critique
              THEN [v EXCEPT !.warnings = Append(@, SemanticWarning)]
              ELSE ValidationError
         ELSE v
    ELSE v

\* the entry _critic_node appends once the validator has answered v
critic_thought(v, hasCritic, r) ==
    IF critic_validation(v, hasCritic, r) = ValidationError THEN "Critic error"
    ELSE IF CallsCritic(v, hasCritic)
    THEN (IF get_semantic_critique(r).has_issues
          THEN "Critic: Found semantic issues"
          ELSE "Critic: SQL is valid, no semantic issues")
    ELSE IF v.valid THEN "Critic: SQL is syntactically valid"
    ELSE "Critic: SQL validation failed"

\* _critic_node
Critic ==
    /\ topology = "multi" /\ node = "critic" /\ CanStep
    /\ IF TimedOut(now, state.timeout_seconds)
       THEN /\ state' = Think(state, <<SkipEntry>>)
            /\ UNCHANGED <<now, val_hist>>
       ELSE IF ~Truthy(state.generated_sql)
       THEN /\ state' = Think([state EXCEPT !.validation_result = NoSqlGenerated],
                              <<Entry("Critic: Validating SQL", state.attempt_count)>>)
            /\ UNCHANGED <<now, val_hist>>
       ELSE \E o \in DbOutcomes(state.generated_sql), r \in CriticResponses,
               d \in Latency :
            /\ now' = Advance(now, d)
            /\ ValObserved(state.generated_sql, validate_sql(o))
            /\ critic_call' = IF CallsCritic(validate_sql(o), critic_llm)
                               THEN CriticCall(state.generated_sql, validate_sql(o))
                               ELSE critic_call
            /\ state' = Think([state EXCEPT
                                 !.validation_result =
                                     critic_validation(validate_sql(o), critic_llm, r),
                                 !.attempt_count = @ + 1],
                              <<Entry("Critic: Validating SQL", state.attempt_count),
                                Entry(critic_thought(validate_sql(o), critic_llm, r),
                                      state.attempt_count)>>)
    /\ node' = "route"
    /\ steps' = steps + 1
    /\ UNCHANGED <<shared, env, single, route, out, gen_hist>>

\* variant: a retry re-enters the graph at the schema navigator
NextNode_RetryFromNavigator(r) == IF r = "retry" THEN "schema_navigator" ELSE "END"
\* the conditional edge after the critic
NextNode(r) == IF r = "retry" THEN "reflect" ELSE "END"

ShouldContinue ==
    /\ topology = "multi" /\ node = "route"
    /\ route' = should_continue(state, now)
    /\ node' = NextNode(route')
    /\ state' = Think(state, continue_thoughts(state, now))
    /\ UNCHANGED <<shared, env, now, single, steps, out, hist>>

\* variant: the note keeps the attempt number only
ReflectionNote_WithoutError(s) ==
    [attempt |-> s.attempt_count, error |-> "None",
     warnings |-> s.validation_result.warnings]
\* the note _reflect_node builds: attempt number, error text, warnings
ReflectionNote(s) ==
    [attempt |-> s.attempt_count, error |-> s.validation_result.error,
     warnings |-> s.validation_result.warnings]

\* _reflect_node
Reflect ==
    /\ topology = "multi" /\ node = "reflect" /\ CanStep
    /\ state' = IF ~HasValidation(state)
                THEN Think(state, <<Entry("Reflecting on error", state.attempt_count)>>)
                ELSE Think([state EXCEPT !.reflections = Append(@, ReflectionNote(state))],
                           <<Entry("Reflecting on error", state.attempt_count),
                             Entry("Reflection", state.attempt_count)>>)
    /\ node' = "sql_writer"
    /\ steps' = steps + 1
    /\ UNCHANGED <<shared, env, now, single, route, out, hist>>

NoOut == [sql |-> None, data |-> "None", error |-> "None", attempts |-> 0,
          reflections |-> <<>>, selected_tables |-> {}, thoughts |-> <<>>]

\* variant: the candidate is executed whatever its validation result
ExecutesSql_IgnoresValidation(s) == Truthy(s.generated_sql)

\* "if sql and validation.get('valid')": the candidate is executed
ExecutesSql(s) == Truthy(s.generated_sql) /\ s.validation_result.valid

\* validation.get("error", "SQL generation failed") on "validation or {}"
FinalError(s) ==
    IF HasValidation(s) THEN s.validation_result.error ELSE "SQL generation failed"

\* ainvoke, after the graph reached END: run the candidate and build the result
AInvokeReturn ==
    /\ topology = "multi" /\ node = "END"
    /\ \E executed \in BOOLEAN :
        out' = [sql |-> state.generated_sql,
                data |-> IF ExecutesSql(state) /\ executed THEN "rows" ELSE "None",
                error |-> IF ExecutesSql(state)
                          THEN (IF executed THEN "None" ELSE "execution error")
                          ELSE FinalError(state),
                attempts |-> state.attempt_count,
                reflections |-> state.reflections,
                selected_tables |-> state.selected_tables,
                thoughts |-> state.thoughts]
    /\ node' = "returned"
    /\ UNCHANGED <<shared, env, now, single, state, steps, route, hist>>

WorkflowError == "Multi-agent workflow error"
\* the graph ran out of supersteps: ainvoke's except branch
AInvokeRaised ==
    /\ topology = "multi" /\ node \in {"schema_navigator", "sql_writer", "critic", "reflect"}
    /\ ~CanStep
    /\ out' = [NoOut EXCEPT !.error = WorkflowError,
                             !.thoughts = <<Entry("Error", 0)>>]
    /\ node' = "returned"
    /\ UNCHANGED <<shared, env, now, single, state, steps, route, hist>>

(* ===================== the caller: query_data (main.py) ================ *)
\* the multi-role generator cannot be imported or constructed: the handler's except
\* branch clears request.multi_agent and calls generate_sql_with_retry; no generator
\* object exists, hence neither of its LLMs
Fallback ==
    /\ topology = "multi" /\ node = "schema_navigator" /\ steps = 0
    /\ ~sql_writer_llm /\ ~critic_llm
    /\ out = NoOut
    /\ topology' = "single"
    /\ timeout_seconds' = SingleTimeout
    /\ UNCHANGED <<shared, requested, max_attempts, user_query, fast_mode, sql_writer_llm,
                   critic_llm, now, single, multi, hist>>

DefaultError == "Failed to generate valid SQL query"
\* the error text of a single-role result, as the handler reads it
ErrorText(e) == IF e.kind = "None" THEN "None" ELSE e.kind
\* "Handle retry failures" and the special responses: what the handler does with
\* the result r of the orchestrator that served the request (mode)
RetryOutcome(mode, r) ==
    LET retry_error == IF mode = "multi" THEN r.error ELSE ErrorText(r.error)
        failed == \/ (mode = "multi" /\ retry_error # "None")
                  \/ (mode = "single" /\ ~r.success)
                  \/ ~Truthy(r.sql)
    IN  IF failed
        THEN [response |-> "generation failed", agent_mode |-> mode,
              error |-> IF retry_error # "None" THEN retry_error ELSE DefaultError,
              detail |-> IF mode = "single" THEN r.error.arg ELSE None]
        ELSE IF r.sql = RATE_LIMIT
        THEN [response |-> "rate limit", agent_mode |-> mode,
              error |-> "Rate Limit Exceeded", detail |-> None]
        ELSE IF r.sql = INVALID_KEY
        THEN [response |-> "invalid key", agent_mode |-> mode,
              error |-> "Invalid API Key", detail |-> None]
        ELSE IF r.sql = API_ERROR
        THEN [response |-> "api error", agent_mode |-> mode,
              error |-> "API_ERROR", detail |-> None]
        ELSE IF r.sql = NO_MATCH
        THEN [response |-> "no match", agent_mode |-> mode,
              error |-> "None", detail |-> None]
        ELSE [response |-> "execute", agent_mode |-> mode,
              error |-> "None", detail |-> None]

(* ========== concurrent requests on the shared LLMAgent (main.py) ======== *)
Requests == {1, 2}
\* self.model after initialisation
BaseModel == "base_model"
\* request.model_id: empty, or the id of a cloud model
ModelIds == {"", "gemma-3-27b-it", "claude-3-5-sonnet"}
\* the writer LLM the multi-role generator builds from the settings
WriterModel == "sql_writer_model"
NoModel == "none"

\* LLMAgent.set_model for a cloud model id: "self.model = model_id"
set_model(current, id) == id
\* "if request.model_id: llm_agent.set_model(request.model_id)"
ModelAfterArrival(current, id) == IF id # "" THEN set_model(current, id) ELSE current

IdleAgent == [model |-> BaseModel, last_thoughts |-> <<>>]
NewRequest(multi_agent, id) ==
    [multi_agent |-> multi_agent, model_id |-> id, pc |-> "start",
     gen_model |-> NoModel, insight_model |-> NoModel, thoughts |-> <<>>]
NoRequests == [r \in Requests |-> NewRequest(FALSE, "")]
\* generate_sql: "self.last_thoughts = []" and the entries appended for the request
ThoughtsOf(r) == <<r>>

\* query_data on the single-role path: it has no suspension point, so the whole
\* handler runs in one step; the insight is generated only for an executed query
HandleSingle(r) ==
    /\ reqs[r].pc = "start" /\ ~reqs[r].multi_agent
    /\ LET m == ModelAfterArrival(agent.model, reqs[r].model_id) IN
       \E executed \in BOOLEAN :
        /\ agent' = [model |-> m, last_thoughts |-> ThoughtsOf(r)]
        /\ reqs' = [reqs EXCEPT ![r] =
                      [@ EXCEPT !.pc = "done", !.gen_model = m,
                                !.thoughts = ThoughtsOf(r),
                                !.insight_model = IF executed THEN m ELSE NoModel]]
    /\ UNCHANGED <<request, applied, store, cursor, calls>>

\* query_data on the multi-role path, up to "await multi_agent.ainvoke(...)"
HandleMultiStart(r) ==
    /\ reqs[r].pc = "start" /\ reqs[r].multi_agent
    /\ agent' = [agent EXCEPT !.model = ModelAfterArrival(@, reqs[r].model_id)]
    /\ reqs' = [reqs EXCEPT ![r].pc = "awaiting"]
    /\ UNCHANGED <<request, applied, store, cursor, calls>>

\* the graph runs while the handler is suspended: its writer uses its own LLM and
\* its thoughts live in its AgentState
GraphRun(r) ==
    /\ reqs[r].pc = "awaiting"
    /\ reqs' = [reqs EXCEPT ![r] =
                  [@ EXCEPT !.pc = "resumable", !.gen_model = WriterModel,
                            !.thoughts = ThoughtsOf(r)]]
    /\ UNCHANGED <<request, applied, store, agent, cursor, calls>>

\* query_data after the await: llm_agent.generate_insight for an executed query
HandleMultiResume(r) ==
    /\ reqs[r].pc = "resumable"
    /\ \E executed \in BOOLEAN :
        reqs' = [reqs EXCEPT ![r] =
                   [@ EXCEPT !.pc = "done",
                             !.insight_model = IF executed THEN agent.model ELSE NoModel]]
    /\ UNCHANGED <<request, applied, store, agent, cursor, calls>>

(* ======= concurrent validate_sql calls on the shared cursor (database.py) ==== *)
Callers == {1, 2}
\* what a candidate is for the data store: rejected, or accepted with its row count
CallOutcomes == {[raised |-> TRUE, n |-> 0, err |-> "near FROM: syntax error"],
                 [raised |-> FALSE, n |-> 0, err |-> "None"],
                 [raised |-> FALSE, n |-> 7, err |-> "None"]}
\* first column of a row of EXPLAIN QUERY PLAN
PlanRowId == 2
NoneRowError == "'NoneType' object is not subscriptable"
NewCall(o) == [outcome |-> o, pc |-> "explain", result |-> NoValidation]
NoCalls == [c \in Callers |-> NewCall([raised |-> TRUE, n |-> 0, err |-> "None"])]

\* "self.cursor.execute(explain_query)"
ExecuteExplain(c) ==
    /\ calls[c].pc = "explain"
    /\ IF calls[c].outcome.raised
       THEN /\ cursor' = <<>>
            /\ calls' = [calls EXCEPT ![c].pc = "done",
                                      ![c].result = validate_sql(calls[c].outcome)]
       ELSE /\ cursor' = <<[owner |-> c, first |-> PlanRowId]>>
            /\ calls' = [calls EXCEPT ![c].pc = "fetchall"]
    /\ UNCHANGED <<request, applied, store, agent, reqs>>

\* "self.cursor.fetchall()"
FetchAll(c) ==
    /\ calls[c].pc = "fetchall"
    /\ cursor' = <<>>
    /\ calls' = [calls EXCEPT ![c].pc = "count"]
    /\ UNCHANGED <<request, applied, store, agent, reqs>>

\* "self.cursor.execute(count_query)"
ExecuteCount(c) ==
    /\ calls[c].pc = "count"
    /\ cursor' = <<[owner |-> c, first |-> calls[c].outcome.n]>>
    /\ calls' = [calls EXCEPT ![c].pc = "fetchone"]
    /\ UNCHANGED <<request, applied, store, agent, reqs>>

\* "row_count = self.cursor.fetchone()[0]" and the rest of validate_sql
FetchOne(c) ==
    /\ calls[c].pc = "fetchone"
    /\ IF cursor = <<>>
       THEN /\ cursor' = cursor
            /\ calls' = [calls EXCEPT ![c].pc = "done",
                           ![c].result =
                               validate_sql([raised |-> TRUE, n |-> 0,
                                             err |-> NoneRowError])]
       ELSE /\ cursor' = Tail(cursor)
            /\ calls' = [calls EXCEPT ![c].pc = "done",
                           ![c].result =
                               validate_sql([raised |-> FALSE, n |-> Head(cursor).first,
                                             err |-> "None"])]
    /\ UNCHANGED <<request, applied, store, agent, reqs>>

(* ================= provider selection (config.py, _init_llms) ============ *)
NoArg == <<"no input">>
NoRes == [done |-> FALSE, value |-> <<>>]
Computed(v) == [done |-> TRUE, value |-> v]
NothingApplied == arg = NoArg /\ res = NoRes

\* the provider flags and credentials of the environment
ProviderSettings ==
    [use_bedrock : BOOLEAN, use_gemini : BOOLEAN, use_anthropic : BOOLEAN,
     use_local_model : BOOLEAN, aws_bearer_token_bedrock : BOOLEAN,
     gemini_api_key : BOOLEAN, anthropic_api_key : BOOLEAN]

\* Settings.active_provider
active_provider(s) ==
    IF s.use_bedrock THEN "bedrock"
    ELSE IF s.use_gemini THEN "gemini"
    ELSE IF s.use_anthropic THEN "anthropic"
    ELSE IF s.use_local_model THEN "local"
    ELSE "gemini"

\* LLMAgent.configure: the Bedrock client exists
bedrock_client(s) ==
    ~s.use_local_model /\ s.use_bedrock /\ s.aws_bearer_token_bedrock
\* the dispatch of LLMAgent.generate_sql on the configured agent; self.model is the
\* Bedrock base model or unset, so the Anthropic branch is taken on no setting
generate_sql_provider(s) ==
    IF s.use_local_model THEN "local"
    ELSE IF s.use_bedrock /\ bedrock_client(s) THEN "bedrock"
    ELSE "gemini"

\* MultiAgentSQLGenerator._init_llms: the provider of the SQL writer
init_llms_provider(s) ==
    IF s.use_local_model THEN "local"
    ELSE IF s.use_bedrock /\ s.aws_bearer_token_bedrock THEN "bedrock"
    ELSE IF s.gemini_api_key THEN "gemini"
    ELSE "none"

\* the three resolutions of one environment
ResolveProviders ==
    /\ ~res.done
    /\ res' = Computed([active |-> active_provider(arg),
                        single |-> generate_sql_provider(arg),
                        multi |-> init_llms_provider(arg)])
    /\ UNCHANGED <<request, store, agent, reqs, cursor, calls, arg>>

(* ============ validate_sql on candidate texts (database.py) ============= *)
\* a candidate text: a statement body, then terminators and white space; the body
\* "Q" is a statement the data store accepts, "X" one it rejects
Bodies == {"Q", "X"}
TailChars == {";", " "}
RECURSIVE Tails(_)
Tails(n) == IF n = 0 THEN {<<>>}
            ELSE Tails(n - 1) \cup {Append(t, c) : t \in Tails(n - 1), c \in TailChars}
CandidateTexts == {<<b>> \o t : b \in Bodies, t \in Tails(MaxTail)}
RECURSIVE Terminators(_)
Terminators(n) == IF n = 0 THEN <<>> ELSE Append(Terminators(n - 1), ";")

\* str.rstrip(ch) and str.lstrip(ch)
RECURSIVE rstrip(_, _)
rstrip(t, ch) == IF t # <<>> /\ t[Len(t)] = ch
                 THEN rstrip(SubSeq(t, 1, Len(t) - 1), ch) ELSE t
RECURSIVE lstrip(_, _)
lstrip(t, ch) == IF t # <<>> /\ t[1] = ch THEN lstrip(Tail(t), ch) ELSE t
strip(t) == lstrip(rstrip(t, " "), " ")
\* "sql_clean = sql_query.strip().rstrip(';')"
sql_clean(t) == rstrip(strip(t), ";")

RowsOfQ == 7
\* the data store on the EXPLAIN and COUNT statements built around text t: a
\* terminator inside the COUNT sub-query is a syntax error
DryRun(t) ==
    IF \E i \in 1..Len(t) : t[i] = ";"
    THEN [raised |-> TRUE, n |-> 0, err |-> "near ;: syntax error"]
    ELSE IF t = <<>> \/ t[1] # "Q"
    THEN [raised |-> TRUE, n |-> 0, err |-> "near X: syntax error"]
    ELSE [raised |-> FALSE, n |-> RowsOfQ, err |-> "None"]
\* DatabaseService.validate_sql on a text
validate_text(t) == validate_sql(DryRun(sql_clean(t)))

\* validate the candidate as it is and followed by n terminators
ValidateBoth ==
    /\ ~res.done
    /\ res' = Computed([plain |-> validate_text(arg.q),
                        terminated |-> validate_text(arg.q \o Terminators(arg.n))])
    /\ UNCHANGED <<request, store, agent, reqs, cursor, calls, arg>>

(* ================= _clean_sql (langgraph_agent.py) ===================== *)
\* A generator output is a sequence of lexical units: an occurrence of a statement
\* keyword in upper or lower case, a blank, a line break, a terminator, a fence, a
\* prefix, a special token, a comment mark, one of ( , = or other text that holds
\* no keyword. An identifier such as created_at is the units "create", "d_at".
sql_keywords == <<"SELECT", "WITH", "INSERT", "UPDATE", "DELETE", "CREATE", "ALTER", "DROP">>
keyword_lower == <<"select", "with", "insert", "update", "delete", "create", "alter", "drop">>
\* str.lower() on a unit
lower_unit(u) ==
    IF \E i \in 1..Len(sql_keywords) : sql_keywords[i] = u
    THEN keyword_lower[CHOOSE i \in 1..Len(sql_keywords) : sql_keywords[i] = u]
    ELSE u
SpecialTokens == {"<s>", "</s>", "<|endoftext|>"}
\* the code fences, three backquotes each, written with quotes
Fences == {"'''sql", "'''"}
prefixes_to_remove ==
    <<"answer:", "sql:", "query:", "here's the query:", "here is the query:",
      "here's the sql:", "here is the sql:", "the query is:", "the sql is:",
      "sql query:", "sqlite query:", "response:", "result:">>
WhiteSpace == {" ", "\n"}
\* str.strip(): blanks and line breaks at both ends
RECURSIVE strip_ws(_)
strip_ws(t) ==
    IF t # <<>> /\ t[1] \in WhiteSpace THEN strip_ws(Tail(t))
    ELSE IF t # <<>> /\ t[Len(t)] \in WhiteSpace THEN strip_ws(SubSeq(t, 1, Len(t) - 1))
    ELSE t
\* re.sub / str.replace(units, "")
Without(t, units) == SelectSeq(t, LAMBDA u : u \notin units)
\* "for prefix in prefixes_to_remove: if sql_lower.startswith(prefix): ..."
RECURSIVE remove_prefixes(_, _)
remove_prefixes(t, i) ==
    IF i > Len(prefixes_to_remove) THEN t
    ELSE IF t # <<>> /\ lower_unit(t[1]) = prefixes_to_remove[i]
    THEN remove_prefixes(strip_ws(Tail(t)), i + 1)
    ELSE remove_prefixes(t, i + 1)
\* str.find on units: the position of the first occurrence, 0 when there is none
Find(t, u) ==
    IF \E i \in 1..Len(t) : lower_unit(t[i]) = u
    THEN CHOOSE i \in 1..Len(t) :
            /\ lower_unit(t[i]) = u
            /\ \A j \in 1..(i - 1) : lower_unit(t[j]) # u
    ELSE 0
\* str.split('\n')
RECURSIVE split_lines(_)
split_lines(t) ==
    IF Find(t, "\n") = 0 THEN <<t>>
    ELSE <<SubSeq(t, 1, Find(t, "\n") - 1)>>
         \o split_lines(SubSeq(t, Find(t, "\n") + 1, Len(t)))
\* '\n'.join(lines)
RECURSIVE join_lines(_)
join_lines(ls) ==
    IF ls = <<>> THEN <<>>
    ELSE IF Len(ls) = 1 THEN ls[1]
    ELSE ls[1] \o <<"\n">> \o join_lines(Tail(ls))
\* the lines, stripped, without the empty ones and those that start with '#'
RECURSIVE cleaned_lines(_)
cleaned_lines(ls) ==
    IF ls = <<>> THEN <<>>
    ELSE IF strip_ws(ls[1]) # <<>> /\ strip_ws(ls[1])[1] # "#"
    THEN <<strip_ws(ls[1])>> \o cleaned_lines(Tail(ls))
    ELSE cleaned_lines(Tail(ls))
\* "if before_text and not before_text.endswith(("(", ",", "="))"
IsLeadingProse(before) ==
    /\ strip_ws(before) # <<>>
    /\ strip_ws(before)[Len(strip_ws(before))] \notin {"(", ",", "="}
\* "Remove any text before the first SQL keyword": the loop over sql_keywords from
\* keyword i on, cutting at the first keyword that is found after leading prose
RECURSIVE cut_before_keyword(_, _)
cut_before_keyword(t, i) ==
    IF i > Len(sql_keywords) THEN t
    ELSE IF /\ Find(t, keyword_lower[i]) > 1
            /\ IsLeadingProse(SubSeq(t, 1, Find(t, keyword_lower[i]) - 1))
    THEN SubSeq(t, Find(t, keyword_lower[i]), Len(t))
    ELSE cut_before_keyword(t, i + 1)
\* LangGraphAgent._clean_sql
clean_sql(raw_sql) ==
    LET stripped == strip_ws(raw_sql)
        untokened == strip_ws(Without(stripped, SpecialTokens))
        unfenced == strip_ws(Without(untokened, Fences))
        unprefixed == remove_prefixes(unfenced, 1)
        uncommented == join_lines(cleaned_lines(split_lines(unprefixed)))
        cut == cut_before_keyword(uncommented, 1)
    IN strip_ws(rstrip(cut, ";"))

\* the generator outputs considered: a statement that begins with a keyword and
\* selects a column, alone or inside a wrapper the cleaning is there to remove
StartKeywords == {"SELECT", "WITH", "UPDATE"}
Columns ==
    { <<"name">>, <<"create", "d_at">>, <<"update", "d_at">>,
      <<"name", ",", "update", "d_at">>, <<"name", ",", " ", "create", "d_at">>,
      <<"(", "SELECT", " ", "name", ")">> }
Statements == {<<k, " ">> \o c \o <<" ", "FROM patients">> : k \in StartKeywords, c \in Columns}
Wrapped(st) ==
    { st,
      st \o <<";">>,
      <<"sql:", " ">> \o st,
      <<"'''sql", "\n">> \o st \o <<"\n", "'''">>,
      <<"<s>">> \o st \o <<"</s>">>,
      <<"#", "note", "\n">> \o st,
      <<"Here it is", ":", " ">> \o st \o <<";", "\n">> }
RawTexts == UNION {Wrapped(st) : st \in Statements}

\* clean one generator output
CleanSql ==
    /\ ~res.done
    /\ res' = Computed(clean_sql(arg))
    /\ UNCHANGED <<request, store, agent, reqs, cursor, calls, arg>>

(* ======== the writer on one cleaned output (langgraph_agent.py) ========= *)
\* the tables of the data store, any subset of which the navigator may select
SchemaTables == {"patients", "visits", "billing", "lab_results"}
\* cleaned generator outputs over a table name or a variant of one
WrittenCandidates == {<<t, 1>> : t \in SchemaTables \cup DOMAIN TableCorrections}
\* the writer's handling of one cleaned output: the candidate it passes on and the
\* entries it appends
WriteCandidate ==
    /\ ~res.done
    /\ res' = Computed([sql |-> correct_tables(arg.o, arg.valid_tables),
                        thoughts |-> writer_thoughts(arg.o, arg.valid_tables, 1)])
    /\ UNCHANGED <<request, store, agent, reqs, cursor, calls, arg>>

(* ============== ChatHistoryService (chat_history.py) =================== *)
Users == {"u1", "u2"}
ThreadIds == 1..MaxThreads
NoOp == [name |-> "none", thread_id |-> 0, removed |-> 0]
Op(name, t, n) == [name |-> name, thread_id |-> t, removed |-> n]
StoreAtRest ==
    /\ threads = {} /\ messages = [t \in ThreadIds |-> 0]
    /\ clock = 0 /\ created = 0 /\ posted = 0
    /\ last_op = NoOp

\* "SELECT id, title, updated_at, pinned FROM threads WHERE user_id = ?"; the
\* order of the rows is left out
get_user_threads(u) == {r \in threads : r.user_id = u}
\* "SELECT ... FROM messages WHERE thread_id = ?": the number of rows returned
get_thread_messages(t) == messages[t]

\* variant: only the thread row is deleted, the messages are left to the cascade
delete_thread_ThreadRowOnly(th, ms, t) ==
    [threads |-> {r \in th : r.id # t}, messages |-> ms]
\* the two DELETE statements of delete_thread and of prune_old_messages
delete_thread(th, ms, t) ==
    [threads |-> {r \in th : r.id # t},
     messages |-> [ms EXCEPT ![t] = 0]]

\* the clock advances
Tick ==
    /\ clock < MaxClock
    /\ clock' = clock + 1
    /\ UNCHANGED <<request, agent, reqs, cursor, calls, applied,
                   threads, messages, created, posted, last_op>>

\* ChatHistoryService.create_thread: a row with a fresh id, not pinned
CreateThread(u) ==
    /\ created < MaxThreads
    /\ created' = created + 1
    /\ threads' = threads \cup {[id |-> created + 1, user_id |-> u,
                                 pinned |-> FALSE, updated_at |-> clock]}
    /\ last_op' = Op("create_thread", 0, 0)
    /\ UNCHANGED <<request, agent, reqs, cursor, calls, applied,
                   messages, clock, posted>>

\* the pinned argument of update_thread
PinnedArgs == {"None", "True", "False"}
\* ChatHistoryService.update_thread: pinned when given, updated_at always
UpdateThread(t, p) ==
    /\ threads' = {IF r.id = t
                   THEN [r EXCEPT !.pinned = IF p = "None" THEN @ ELSE p = "True",
                                  !.updated_at = clock]
                   ELSE r : r \in threads}
    /\ last_op' = Op("update_thread", 0, 0)
    /\ UNCHANGED <<request, agent, reqs, cursor, calls, applied,
                   messages, clock, created, posted>>

\* ChatHistoryService.delete_thread
DeleteThread(t) ==
    /\ threads' = delete_thread(threads, messages, t).threads
    /\ messages' = delete_thread(threads, messages, t).messages
    /\ last_op' = Op("delete_thread", t, get_thread_messages(t))
    /\ UNCHANGED <<request, agent, reqs, cursor, calls, applied,
                   clock, created, posted>>

\* ChatHistoryService.add_message: the message row is inserted whether or not the
\* thread exists (no foreign key enforcement is switched on); the thread's
\* updated_at is refreshed
AddMessage(t) ==
    /\ posted < MaxMessages
    /\ posted' = posted + 1
    /\ messages' = [messages EXCEPT ![t] = @ + 1]
    /\ threads' = {IF r.id = t THEN [r EXCEPT !.updated_at = clock] ELSE r :
                   r \in threads}
    /\ last_op' = Op("add_message", 0, 0)
    /\ UNCHANGED <<request, agent, reqs, cursor, calls, applied, clock, created>>

\* variant: the selection looks at updated_at only
old_threads_PinnedToo(hours) ==
    {r.id : r \in {x \in threads : x.updated_at < clock - hours}}
\* "SELECT id FROM threads WHERE updated_at < ? AND pinned = 0", hours in clock units
old_threads(hours) ==
    {r.id : r \in {x \in threads : x.updated_at < clock - hours /\ ~x.pinned}}
\* the message rows of the threads in S
RECURSIVE rows_of(_, _)
rows_of(ms, S) ==
    IF S = {} THEN 0
    ELSE LET t == CHOOSE x \in S : TRUE IN ms[t] + rows_of(ms, S \ {t})
\* ChatHistoryService.prune_old_messages; last_op keeps the number of message rows
\* its DELETE statements removed
PruneOldMessages(hours) ==
    /\ threads' = {r \in threads : r.id \notin old_threads(hours)}
    /\ messages' = [t \in ThreadIds |->
                        IF t \in old_threads(hours) THEN 0 ELSE messages[t]]
    /\ last_op' = Op("prune_old_messages", 0, rows_of(messages, old_threads(hours)))
    /\ UNCHANGED <<request, agent, reqs, cursor, calls, applied,
                   clock, created, posted>>

(* ----------------------------- specification --------------------------- *)
\* one request arrives; the singletons are not in use by another request
RequestInit ==
    /\ topology \in {"single", "multi"}
    /\ requested = topology
    /\ max_attempts \in 1..MaxAttempts
    /\ timeout_seconds = (IF topology = "single" THEN SingleTimeout ELSE MultiTimeout)
    /\ user_query \in Queries
    /\ fast_mode \in (IF topology = "single" THEN BOOLEAN ELSE {FALSE})
    /\ sql_writer_llm \in (IF topology = "multi" THEN BOOLEAN ELSE {TRUE})
    /\ critic_llm \in (IF topology = "multi" THEN BOOLEAN ELSE {TRUE})
    /\ now = 0
    /\ pc = "plan" /\ attempt_num = 0 /\ sql = None /\ error_msg = "None"
    /\ attempts = <<>> /\ validation = NoValidation
    /\ reflections = <<>> /\ query_plan = "None"
    /\ history = RecentHistory
    /\ ret = NoResult
    /\ last_thoughts = <<>> /\ appended = <<>>
    /\ state = InitialState(user_query, max_attempts, timeout_seconds)
    /\ node = "schema_navigator" /\ steps = 0 /\ route = "None" /\ out = NoOut
    /\ gen_calls = 0 /\ first_gen = "None" /\ all_gen_slow = TRUE
    /\ writer_failures = 0 /\ gen_context = <<>>
    /\ gen_late = FALSE /\ plan_calls = 0
    /\ validated_sql = None /\ all_zero_rows = TRUE /\ critic_call = NoCriticCall

Init ==
    /\ RequestInit
    /\ agent = IdleAgent /\ reqs = NoRequests
    /\ cursor = <<>> /\ calls = NoCalls
    /\ NothingApplied /\ StoreAtRest

Next ==
    \/ SPlan \/ SLoopHead \/ SGenerate \/ SValidate \/ SReflect
    \/ SchemaNavigator \/ SqlWriter \/ Critic \/ ShouldContinue \/ Reflect
    \/ AInvokeReturn \/ AInvokeRaised
    \/ Fallback

Spec == Init /\ [][Next]_vars

\* the request of the first specification, at rest
RequestAtRest ==
    /\ RequestInit
    /\ topology = "single" /\ max_attempts = 1 /\ ~fast_mode
    /\ user_query = CHOOSE q \in Queries : TRUE

\* two requests served by the same process
InitRequests ==
    /\ RequestAtRest
    /\ agent = IdleAgent
    /\ reqs \in [Requests -> {NewRequest(m, id) : m \in BOOLEAN, id \in ModelIds}]
    /\ cursor = <<>> /\ calls = NoCalls
    /\ NothingApplied /\ StoreAtRest

NextRequests ==
    \E r \in Requests :
        \/ HandleSingle(r) \/ HandleMultiStart(r) \/ GraphRun(r)
        \/ HandleMultiResume(r)

SpecRequests == InitRequests /\ [][NextRequests]_vars

\* two validate_sql calls on the same DatabaseService
InitCalls ==
    /\ RequestAtRest
    /\ agent = IdleAgent /\ reqs = NoRequests
    /\ cursor = <<>>
    /\ calls \in [Callers -> {NewCall(o) : o \in CallOutcomes}]
    /\ NothingApplied /\ StoreAtRest

NextCalls ==
    \E c \in Callers :
        \/ ExecuteExplain(c) \/ FetchAll(c) \/ ExecuteCount(c) \/ FetchOne(c)

SpecCalls == InitCalls /\ [][NextCalls]_vars

\* the singletons at rest
SharedAtRest ==
    /\ agent = IdleAgent /\ reqs = NoRequests
    /\ cursor = <<>> /\ calls = NoCalls

\* every environment, resolved
InitProviders ==
    /\ RequestAtRest /\ SharedAtRest /\ StoreAtRest
    /\ arg \in ProviderSettings /\ res = NoRes

NextProviders == ResolveProviders

SpecProviders == InitProviders /\ [][NextProviders]_vars

\* every candidate text with every number of added terminators
InitTerminators ==
    /\ RequestAtRest /\ SharedAtRest /\ StoreAtRest
    /\ arg \in [q : CandidateTexts, n : 0..MaxTerminators] /\ res = NoRes

NextTerminators == ValidateBoth

SpecTerminators == InitTerminators /\ [][NextTerminators]_vars

\* every generator output, cleaned
InitCleaning ==
    /\ RequestAtRest /\ SharedAtRest /\ StoreAtRest
    /\ arg \in RawTexts /\ res = NoRes

NextCleaning == CleanSql

SpecCleaning == InitCleaning /\ [][NextCleaning]_vars

\* every cleaned output against every selection of tables
InitCorrections ==
    /\ RequestAtRest /\ SharedAtRest /\ StoreAtRest
    /\ arg \in [o : WrittenCandidates, valid_tables : SUBSET SchemaTables]
    /\ res = NoRes

NextCorrections == WriteCandidate

SpecCorrections == InitCorrections /\ [][NextCorrections]_vars

\* the chat history store, empty, and every sequence of calls on it
InitThreads ==
    /\ RequestAtRest /\ SharedAtRest /\ NothingApplied
    /\ StoreAtRest

NextThreads ==
    \/ Tick
    \/ \E u \in Users : CreateThread(u)
    \/ \E t \in ThreadIds, p \in PinnedArgs : UpdateThread(t, p)
    \/ \E t \in ThreadIds : DeleteThread(t)
    \/ \E t \in ThreadIds : AddMessage(t)
    \/ \E h \in 0..MaxClock : PruneOldMessages(h)

SpecThreads == InitThreads /\ [][NextThreads]_vars

(* ============================== properties ============================= *)
SingleDone == topology = "single" /\ pc = "done"
MultiDone == topology = "multi" /\ node = "returned"
\* the multi-role invocation reports success: data returned with error = null
MultiSuccess == MultiDone /\ out.data # "None" /\ out.error = "None"
\* the routing decision after the critic has been taken
Routed == topology = "multi" /\ route # "None" /\ node \in {"END", "reflect", "returned"}
\* every generator call so far returned a candidate
OnlyCandidates ==
    IF topology = "single"
    THEN \A i \in 1..Len(attempts) : attempts[i] \in Candidates
    ELSE sql_writer_llm /\ writer_failures = 0
\* the validator has been called, and answered valid with 0 rows every time
AlwaysZeroRows == validated_sql # None /\ all_zero_rows

\* C1: in both topologies the attempt counter never exceeds max-attempts, and
\* the attempts value returned to the caller is at most max-attempts.
C1_AttemptsBounded ==
    /\ attempt_num <= max_attempts
    /\ (pc \in {"generate", "validate", "reflect"} => attempt_num + 1 <= max_attempts)
    /\ ret.attempts <= max_attempts
    /\ state.attempt_count <= state.max_attempts
    /\ out.attempts <= max_attempts

\* C1 witness: a multi-role invocation that used its whole budget of >= 2 attempts
C1_Witness ==
    MultiDone /\ max_attempts >= 2 /\ out.attempts = max_attempts /\ gen_calls >= 2

\* C2: whenever an invocation reports success, the returned candidate is non-null
\* and is the candidate whose most recent validation result had valid = true.
C2_SuccessIsValidated ==
    /\ (SingleDone /\ ret.success) =>
          /\ ret.sql \in Candidates
          /\ validation.valid
          /\ validated_sql = ret.sql
    /\ MultiSuccess =>
          /\ out.sql \in Candidates
          /\ state.validation_result.valid
          /\ validated_sql = out.sql

\* C2 witness: a multi-role success reached after a rejected attempt and a reflection
C2_Witness == MultiSuccess /\ Len(out.reflections) >= 1 /\ out.attempts >= 2

\* C3: if the first generator call returns a valid candidate with a non-zero,
\* in-bound row count, the decision for that attempt is SUCCESS and the invocation
\* returns success with attempts = 1 and no reflection, for every max-attempts >= 1.
C3_FirstValidCandidateAccepted ==
    /\ (SingleDone /\ Len(attempts) = 1 /\ attempts[1] \in Candidates
          /\ validation.valid /\ ReasonableRowCount(validation.row_count)) =>
          (ret.success /\ ret.attempts = 1 /\ ret.reflections = <<>>)
    /\ (Routed /\ OnlyCandidates /\ gen_calls = 1 /\ state.attempt_count = 1
          /\ ~TimedOut(now, state.timeout_seconds)
          /\ state.validation_result.valid
          /\ ReasonableRowCount(state.validation_result.row_count)) =>
          /\ route = "success"
          /\ state.reflections = <<>>
          /\ (MultiDone /\ out.error # "execution error") =>
                (MultiSuccess /\ out.attempts = 1 /\ out.reflections = <<>>)

\* the first two generator calls returned the same candidate text
SameCandidateTwice ==
    IF topology = "single"
    THEN Len(attempts) >= 2 /\ attempts[1] \in Candidates /\ attempts[2] = attempts[1]
    ELSE /\ writer_failures = 0
         /\ Len(state.previous_sqls) >= 2
         /\ state.previous_sqls[2] = state.previous_sqls[1]

\* C4: if the generator returns on attempt 2 the candidate text of attempt 1, the
\* invocation terminates at attempt 2 with reason max_attempts and never makes a
\* third generation call.
C4_DuplicateStopsAtAttemptTwo ==
    SameCandidateTwice =>
        /\ gen_calls = 2
        /\ (SingleDone /\ ret.error.kind # "timeout") =>
              (ret.attempts = 2 /\ ret.error.kind = "Failed after attempts")
        /\ (Routed /\ ~TimedOut(now, state.timeout_seconds)) =>
              /\ route = "max_attempts"
              /\ MultiDone => out.attempts = 2

\* C5: when every generation call takes longer than the timeout budget and attempts
\* remain (max-attempts above the two attempts a run can start), every invocation
\* terminates with reason timeout, never max_attempts, with attempts < max-attempts.
C5_TimeoutPrecedence ==
    (gen_calls >= 1 /\ all_gen_slow /\ OnlyCandidates /\ max_attempts >= 3) =>
        /\ SingleDone => (ret.error.kind = "timeout" /\ ret.attempts < max_attempts)
        /\ MultiDone => (route = "timeout" /\ out.attempts < max_attempts)

\* C6: if the budget is exceeded when the decision after validation/critique is
\* taken, the invocation ends as TIMEOUT and is not reported as a success, even when
\* the candidate just validated is valid and attempts remain.
C6_NoSuccessPastBudget ==
    /\ (SingleDone /\ TimedOut(now, timeout_seconds)) =>
          (~ret.success /\ ret.sql = None)
    /\ (MultiDone /\ route = "timeout") =>
          (out.data = "None" /\ out.error # "None")

\* C7: when the first generator call fails with a provider-terminal error, the
\* invocation terminates immediately: no second generation call, no reflection,
\* attempts = 1, success = false, and the error returned is the provider error.
C7_ProviderErrorShortCircuits ==
    first_gen = "provider_error" =>
        /\ gen_calls = 1
        /\ reflections = <<>> /\ state.reflections = <<>>
        /\ SingleDone =>
              /\ ~ret.success /\ ret.attempts = 1
              /\ ret.error.arg \in ProviderErrors
        /\ MultiDone =>
              /\ out.data = "None" /\ out.attempts = 1
              /\ out.error \in {"RATE_LIMIT", "INVALID_KEY", "API_ERROR"}

\* C8: when the candidate validated on the final allowed attempt is valid, the
\* decision is SUCCESS (not MAX_ATTEMPTS), whatever its row count.
C8_FinalAttemptValidIsSuccess ==
    /\ (SingleDone /\ attempt_num = max_attempts - 1 /\ Len(attempts) = max_attempts
          /\ attempts[max_attempts] \in Candidates /\ validation.valid) =>
          (ret.success /\ ret.sql = sql)
    /\ (Routed /\ state.attempt_count = state.max_attempts
          /\ ~TimedOut(now, state.timeout_seconds)
          /\ state.validation_result.valid) =>
          route = "success"

\* C9: when the request contains aggregate vocabulary and the validator answers
\* valid with row_count = 0 for the first candidate, the invocation returns success
\* on attempt 1 with an empty reflection list, for every max-attempts >= 1.
C9_AggregateZeroRowsAccepted ==
    (HasAggregateKeyword(user_query) /\ AlwaysZeroRows /\ OnlyCandidates) =>
        /\ topology = "single" =>
              (pc = "done" /\ ret.success /\ ret.attempts = 1 /\ ret.reflections = <<>>)
        /\ (topology = "multi" /\ node # "route" /\ state.attempt_count = 1
              /\ state.validation_result.valid) =>
              /\ node \in {"END", "returned"}
              /\ state.reflections = <<>>
              /\ (MultiDone /\ out.error # "execution error") =>
                    (MultiSuccess /\ out.attempts = 1)

C12_RaisedMultiServedBySingleRole ==
    (requested = "multi" /\ MultiDone) =>
        /\ RetryOutcome("multi", out).error # WorkflowError
        /\ out.error = WorkflowError => RetryOutcome("multi", out).agent_mode = "single"

\* C13: a NO_MATCH answer of the generator is not retried and reaches the caller as
\* the no-match outcome, whose error is null
C13_NoMatchIsDistinctOutcome ==
    (SingleDone /\ attempts # <<>> /\ attempts[Len(attempts)] = NO_MATCH) =>
        /\ \A i \in 1..(Len(attempts) - 1) : attempts[i] # NO_MATCH
        /\ ret.attempts = Len(attempts)
        /\ RetryOutcome("single", ret).response = "no match"
        /\ RetryOutcome("single", ret).error = "None"

\* C14: no response of the Semantic Critic turns a candidate the database accepted
\* into an invalid one: every invalid verdict the critic stores is the database's own
\* (or the one for a missing SQL text)
C14_CriticResponseNeverInvalidates ==
    (topology = "multi" /\ ~state.validation_result.valid) =>
        state.validation_result.error \in
            Range(DbErrorTexts) \cup {NoSuchTablePatient, NoSqlGenerated.error,
                                      NoValidation.error}

\* the single-role loop was left at its elapsed-time check: it neither succeeded, nor
\* met a terminal answer of the generator, nor used up its attempts
SingleEndedByTimeout ==
    /\ SingleDone /\ TimedOut(now, timeout_seconds) /\ ~ret.success
    /\ Len(attempts) < max_attempts
    /\ attempts # <<>> => attempts[Len(attempts)] \in Candidates
\* the graph was left through the "timeout" edge
MultiEndedByTimeout == MultiDone /\ route = "timeout"
\* the error texts that contain "timeout"
IdentifiesTimeout(e) == e \in {"timeout"}

\* C15: in both topologies an invocation ended by the timeout returns a failure
\* whose error text contains "timeout"
C15_TimeoutIsReportedAsTimeout ==
    /\ SingleEndedByTimeout => (~ret.success /\ IdentifiesTimeout(ret.error.kind))
    /\ MultiEndedByTimeout => (out.data = "None" /\ IdentifiesTimeout(out.error))

\* C16: in both topologies no Candidate Generator call is started once the elapsed
\* time exceeds the configured timeout
C16_NoGenerationPastTimeout == ~gen_late
\* the budget elapsed during a reflection and the next generation call was not made
C16_Witness ==
    \/ /\ SingleEndedByTimeout /\ Len(reflections) >= 1
       /\ gen_calls = Len(reflections)
    \/ /\ MultiEndedByTimeout /\ Len(state.reflections) >= 1
       /\ gen_calls = Len(state.reflections)

\* C17: with fast mode set the Plan Composer is never called, no generation call has
\* a plan in its context, and the plan returned to the caller is null at every exit
C17_FastModeSkipsPlanning ==
    (topology = "single" /\ fast_mode) =>
        /\ plan_calls = 0
        /\ \A i \in 1..Len(gen_context) : gen_context[i].text[1] # "Query Plan:"
        /\ query_plan = "None"
        /\ pc = "done" => ret.query_plan = "None"
\* a fast-mode invocation that succeeded on a retry
C17_Witness ==
    /\ SingleDone /\ fast_mode /\ ret.success /\ ret.attempts >= 2
    /\ Len(gen_context) >= 2

\* C20: the Schema Selector always hands the full table list of the schema to the
\* generation step, also when its lookup or a schema fetch raised, and the
\* invocation proceeds to generation
C20_NavigatorDegradesToFullTableList ==
    (topology = "multi" /\ steps >= 1) =>
        /\ state.selected_tables = Tables
        /\ state.table_schemas = Tables
        /\ node # "schema_navigator"

\* what request r gets when it is the only request the process serves
AloneModel(r) == ModelAfterArrival(BaseModel, reqs[r].model_id)
AloneGenModel(r) == IF reqs[r].multi_agent THEN WriterModel ELSE AloneModel(r)

\* C18: two requests served concurrently do not affect each other: for a request
\* that names its model, the model of each generation call, the trace and the model
\* that words the outcome are those of the request served alone
C18_ConcurrentRequestsIndependent ==
    \A r \in Requests :
        (reqs[r].pc = "done" /\ reqs[r].model_id # "") =>
            /\ reqs[r].gen_model = AloneGenModel(r)
            /\ reqs[r].insight_model \in {NoModel, AloneModel(r)}
            /\ reqs[r].thoughts = ThoughtsOf(r)

\* C19: concurrent validate_sql calls each return the validity and the row count of
\* their own candidate
C19_ConcurrentValidationsIndependent ==
    \A c \in Callers :
        calls[c].pc = "done" => calls[c].result = validate_sql(calls[c].outcome)

\* C21: the trace is append-only: the trace the caller receives at the end of an
\* invocation holds every entry appended during it, in the original order
C21_TraceIsAppendOnly ==
    /\ SingleDone => last_thoughts = appended
    /\ MultiDone => out.thoughts = state.thoughts

\* C22: when the writer role has no configured provider, its generation request
\* fails with UNAVAILABLE and the invocation ends with that error: the missing role
\* is never handled as a failed attempt to retry
C22_MissingProviderIsUnavailable ==
    (topology = "multi" /\ ~sql_writer_llm) =>
        /\ route # "retry"
        /\ state.reflections = <<>>
        /\ MultiDone => out.error = "UNAVAILABLE"

\* C23: for every combination of provider flags, the provider the single-role agent
\* and the multi-role generator use for generation is the active provider of the
\* configuration (priority Bedrock > Gemini > Anthropic > Local)
C23_OneProviderOrder ==
    res.done =>
        /\ res.value.single = active_provider(arg)
        /\ res.value.multi = active_provider(arg)

\* q is an initial segment of r
IsPrefix(q, r) == Len(q) <= Len(r) /\ SubSeq(r, 1, Len(q)) = q

\* C24: a pass through the reflect step with a failed validation result appends
\* exactly one note, which carries the attempt number and the validation error text;
\* the earlier notes stay unchanged and in order, and no step removes a note
C24_ReflectAppendsOneNote ==
    [][topology = "multi" =>
        /\ IsPrefix(state.reflections, state'.reflections)
        /\ (node = "reflect" /\ node' = "sql_writer" /\ HasValidation(state)
              /\ ~state.validation_result.valid) =>
              /\ Len(state'.reflections) = Len(state.reflections) + 1
              /\ state'.reflections[Len(state'.reflections)].attempt = state.attempt_count
              /\ state'.reflections[Len(state'.reflections)].error =
                     state.validation_result.error
        /\ ~(node = "reflect" /\ node' = "sql_writer") =>
              state'.reflections = state.reflections]_vars
\* the reflect step has run after two different failed attempts
C24_Witness ==
    /\ topology = "multi" /\ Len(state.reflections) >= 2
    /\ state.reflections[1].attempt = 1 /\ state.reflections[2].attempt = 2
    /\ state.reflections[1].error # state.reflections[2].error

\* C25: for every candidate q and every number n of trailing statement terminators,
\* validating q followed by n terminators gives the same valid flag, error and row
\* count as validating q
C25_TrailingTerminatorsIgnored ==
    res.done =>
        /\ res.value.terminated.valid = res.value.plain.valid
        /\ res.value.terminated.error = res.value.plain.error
        /\ res.value.terminated.row_count = res.value.plain.row_count

\* C26: every result of validate_sql has valid = true exactly when error is null;
\* a valid result has a row count >= 0, the 0-rows warning exactly when the count is
\* 0 and the too-many-rows warning exactly when it exceeds 10000; an invalid result
\* has a null row count and no warning
C26_ValidationResultShape ==
    (topology = "single" /\ validation # NoValidation) =>
        /\ validation.valid <=> validation.error = "None"
        /\ validation.valid =>
              /\ validation.row_count >= 0
              /\ (\E i \in 1..Len(validation.warnings) :
                      validation.warnings[i] = ZeroRowsWarning)
                 <=> validation.row_count = 0
              /\ (\E i \in 1..Len(validation.warnings) :
                      validation.warnings[i] = TooManyRowsWarning)
                 <=> validation.row_count > RowUpperBound
        /\ ~validation.valid =>
              /\ validation.row_count = NoRowCount
              /\ validation.warnings = <<>>
\* validate_sql has answered valid with a warning, at the bound without one, and
\* invalid, within one invocation
C26_Witness ==
    /\ topology = "single" /\ validation.valid
    /\ validation.row_count = RowUpperBound /\ validation.warnings = <<>>
    /\ Len(reflections) >= 2

\* a text that begins with a statement keyword and has no fence, prefix, special
\* token, comment line, line break or terminator at its end
IsCleanStatement(t) ==
    /\ t # <<>>
    /\ \E i \in 1..Len(sql_keywords) : t[1] = sql_keywords[i]
    /\ t[Len(t)] \notin WhiteSpace \cup {";"}
    /\ \A i \in 1..Len(t) :
          /\ t[i] \notin SpecialTokens \cup Fences \cup {"#", "\n"}
          /\ \A j \in 1..Len(prefixes_to_remove) : t[i] # prefixes_to_remove[j]
\* C27: a generator output that begins with a statement keyword and carries no
\* fence, prefix, special token, comment line or trailing terminator is returned
\* unchanged by the cleaning, whatever identifiers it contains
C27_CleanStatementUnchanged ==
    (res.done /\ IsCleanStatement(arg)) => res.value = arg

\* C28: after delete_thread(t), thread t is in no user's thread list and
\* get_thread_messages(t) returns no message
C28_DeletedThreadIsGone ==
    last_op.name = "delete_thread" =>
        /\ \A u \in Users : \A r \in get_user_threads(u) : r.id # last_op.thread_id
        /\ get_thread_messages(last_op.thread_id) = 0
\* a thread holding every message added so far was deleted while another thread is kept
C28_Witness ==
    /\ last_op.name = "delete_thread" /\ last_op.removed = MaxMessages
    /\ last_op.thread_id \in 1..created
    /\ threads # {}

\* the passes through the writer node so far: the graph runs the navigator once,
\* then writer, critic and reflect in turn, one superstep each
WriterPasses == (steps + 1) \div 3
\* C29: a multi-role invocation passes through the writer node at most max-attempts
\* times and ends at END, never by the graph running out of supersteps, whatever the
\* writer does
C29_WriterPassesBounded ==
    topology = "multi" =>
        /\ WriterPasses <= max_attempts
        /\ MultiDone => out.error # WorkflowError

\* the error texts of the data store for a malformed candidate
SyntaxErrors == {DbErrorTexts[i] : i \in 1..Len(DbErrorTexts)} \cup {NoSuchTablePatient}
NoTwoEqual(s) == \A i, j \in 1..Len(s) : s[i] = s[j] => i = j
\* a finished single-role invocation, not ended by the timeout, in which every
\* generator call returned a candidate, no two the same, and each was found invalid
SingleAllInvalid ==
    /\ SingleDone /\ attempts # <<>> /\ OnlyCandidates /\ NoTwoEqual(attempts)
    /\ ret.error.kind # "timeout"
    /\ ~validation.valid
    /\ \A i \in 1..Len(reflections) : reflections[i][2] \in SyntaxErrors
\* the same for a finished multi-role invocation
MultiAllInvalid ==
    /\ MultiDone /\ state.previous_sqls # <<>> /\ OnlyCandidates
    /\ NoTwoEqual(state.previous_sqls)
    /\ route # "timeout" /\ out.error # WorkflowError
    /\ state.validation_result.error \in SyntaxErrors
    /\ \A i \in 1..Len(state.reflections) : state.reflections[i].error \in SyntaxErrors
C31_CriticOnlyAfterValid ==
    [][/\ critic_call'.called =>
              (critic_call'.valid /\ Truthy(critic_call'.sql))
       /\ critic_call' # critic_call =>
              /\ node = "critic" /\ critic_call'.sql = state.generated_sql
              /\ validated_sql' = critic_call'.sql
              /\ state'.attempt_count = state.attempt_count + 1]_vars
\* the critic was consulted on the second candidate after the first was found invalid
C31_Witness ==
    /\ topology = "multi" /\ critic_call.called
    /\ Len(state.previous_sqls) = 2 /\ critic_call.sql = state.previous_sqls[2]
    /\ Len(state.reflections) = 1 /\ state.reflections[1].error \in Range(DbErrorTexts)

\* C32: in both topologies a valid candidate whose row count exceeds the upper bound
\* is not accepted on a non-final attempt (a reflection note and a further generation
\* call follow) and is accepted as success on the final attempt
C32_TooManyRowsRetriedUntilFinal ==
    /\ (topology = "single" /\ validation.valid
          /\ validation.row_count > RowUpperBound
          /\ attempts # <<>> /\ attempts[Len(attempts)] \in Candidates) =>
          /\ Len(attempts) < max_attempts =>
                /\ ~ret.success
                /\ pc = "loop" => Len(reflections) = Len(attempts)
          /\ Len(attempts) = max_attempts => (SingleDone /\ ret.success)
    /\ (Routed /\ state.validation_result.valid
          /\ state.validation_result.row_count > RowUpperBound
          /\ route # "timeout" /\ ~IsDuplicate(state)) =>
          /\ state.attempt_count < max_attempts => route = "retry"
          /\ state.attempt_count = max_attempts => route # "retry"

\* C33: in a multi-role invocation the schema navigator runs once, as the first step
\* and before any generation call, and no later step changes the selected tables or
\* the table schemas it produced
C33_SchemaSelectedOnce ==
    [][topology = "multi" =>
          /\ node = "schema_navigator" => (steps = 0 /\ gen_calls = 0)
          /\ node # "schema_navigator" =>
                /\ node' # "schema_navigator"
                /\ state'.selected_tables = state.selected_tables
                /\ state'.table_schemas = state.table_schemas
          /\ gen_calls' > gen_calls => steps >= 1]_vars
\* a third generation call was made against the schemas the navigator prepared
C33_Witness ==
    /\ topology = "multi" /\ gen_calls = 3 /\ Len(state.reflections) = 2
    /\ state.table_schemas = Tables /\ state.selected_tables = Tables

\* C34: every return of the single-role loop with max-attempts >= 1 carries
\* attempts - 1 reflection notes
C34_ReflectionsAreAttemptsMinusOne ==
    (SingleDone /\ max_attempts >= 1) => Len(ret.reflections) = ret.attempts - 1

\* the loop returned on its second pass because the budget had elapsed, after one
\* reflection
C34_Witness ==
    /\ SingleDone /\ max_attempts = MaxAttempts
    /\ ret.error.kind = "timeout" /\ ret.attempts = 2 /\ Len(ret.reflections) = 1

\* C35: in every result of the single-role loop, success = true exactly when the
\* returned sql is non-null and exactly when the returned error is null
C35_SingleResultConsistent ==
    SingleDone =>
        /\ ret.success <=> ret.sql # None
        /\ ret.success <=> ret.error = NoError
        /\ ret.success <=> RetryOutcome("single", ret).error = "None"
\* a failure after the last of three candidates was rejected
C35_Witness ==
    /\ SingleDone /\ ~ret.success /\ ret.attempts = MaxAttempts
    /\ Len(attempts) = MaxAttempts /\ attempts[MaxAttempts] \in Candidates
    /\ ret.error.kind = "Failed after attempts"

\* the writer's entries hold the one that names a replacement
SaysCorrected(thoughts) ==
    \E i \in 1..Len(thoughts) : thoughts[i].kind = "SQL Writer: Auto-corrected table names"
\* C36: the writer replaces a table-name variant only by a table of the selected
\* schemas, and whenever the candidate it passes on differs from the cleaned output,
\* the entry naming the replacement is appended in the same step
C36_CorrectionsAreValidAndTraced ==
    res.done =>
        /\ res.value.sql # arg.o =>
              /\ arg.o[1] \in DOMAIN TableCorrections
              /\ res.value.sql[1] = TableCorrections[arg.o[1]]
              /\ res.value.sql[1] \in arg.valid_tables
              /\ SaysCorrected(res.value.thoughts)
        /\ SaysCorrected(res.value.thoughts) => res.value.sql # arg.o
\* "labs" was replaced by lab_results, a selected table, and the replacement was traced
C36_Witness ==
    /\ res.done /\ arg.o[1] = "labs" /\ res.value.sql[1] = "lab_results"
    /\ arg.valid_tables = {"lab_results", "patients"}
    /\ SaysCorrected(res.value.thoughts)

\* C37: across the steps of one multi-role invocation the previous-candidates list
\* is only appended to: earlier elements stay and the length never decreases
C37_PreviousCandidatesAppendOnly ==
    [][topology = "multi" => IsPrefix(state.previous_sqls, state'.previous_sqls)]_vars
\* three candidates were recorded, the third equal to the first
C37_Witness ==
    /\ topology = "multi" /\ Len(state.previous_sqls) = 3
    /\ state.previous_sqls[3] = state.previous_sqls[1]
    /\ state.previous_sqls[2] # state.previous_sqls[1]

\* C38: whenever the current candidate of a multi-role invocation is non-null, it is
\* the last element of the previous-candidates list
C38_CandidateIsLastTracked ==
    (topology = "multi" /\ state.generated_sql # None) =>
        /\ state.previous_sqls # <<>>
        /\ state.previous_sqls[Len(state.previous_sqls)] = state.generated_sql

\* the writer failed once and then returned a second candidate, equal to the first
C38_Witness ==
    /\ topology = "multi" /\ writer_failures = 1
    /\ Len(state.previous_sqls) = 2 /\ state.generated_sql = state.previous_sqls[1]
    /\ state.generated_sql # None

\* the caller's list after the call: the loop rebinds its name to a fresh list only
\* when the list it was given is empty ("if not history: history = []"); otherwise
\* "history.append" acts on the caller's own list
caller_history == IF RecentHistory = <<>> THEN RecentHistory ELSE history
\* C39: when generate_sql_with_retry returns, the prior-conversation list passed in
\* holds exactly the elements it held before the call
C39_CallerHistoryUnchanged ==
    SingleDone => caller_history = RecentHistory

====
